---- MODULE Spec2Model ----
(***************************************************************************)
(* Continuous-authentication decision engine of the behavioral biometric   *)
(* data logger: SessionManager (security/encryption.py), SecurityManager   *)
(* (security/security_manager.py), AdaptiveThresholds and MLManager        *)
(* (ml/behavior_models.py), ResponseEngine, ChallengeManager and           *)
(* AdaptiveResponseManager (auth/adaptive_response.py), the session slot   *)
(* of BehavioralDataManager (core/behavioral_manager.py) and               *)
(* AuthenticationManager (auth/auth_manager.py).                           *)
(*                                                                         *)
(* Units and configuration.  One unit of time is 300 seconds.  The         *)
(* challenge timeout is the default lockout_duration of 300 seconds; the   *)
(* configuration modelled sets timeout_minutes to 15, idle_timeout_minutes *)
(* to 5 and max_concurrent_sessions to 2, so that absolute expiry, idle    *)
(* expiry and eviction all occur within the time and session bounds.       *)
(* Scores, thresholds and adjustments are the source's floats multiplied   *)
(* by 1000 (0.9 is 900), which keeps the arithmetic of adjust_threshold    *)
(* and analyze_behavior exact on the inputs drawn here.                    *)
(*                                                                         *)
(* State that no modelled operation reads back is not represented: the     *)
(* security event log, response_history, feature_history,                  *)
(* active_restrictions and the rolling average_confidence.  An alert of    *)
(* alert_history is kept as its identity and the session it was raised     *)
(* for.                                                                    *)
(***************************************************************************)
EXTENDS Integers, Sequences, FiniteSets, TLC

\* ---------------------------------------------------------------- bounds
MaxTime == 3
MaxSessions == 3
MaxChallenges == 1
MaxCalls == 3
MaxResponseCalls == 5
MaxEvictionSessions == 4
MaxLifecycleCalls == 4

\* ------------------------------------------------- configuration defaults
session_timeout == 3
idle_timeout == 1
max_concurrent == 2
max_attempts == 3
challenge_timeout == 1
learning_rate == 100
AdjMin == -300
AdjMax == 300
ThrMin == 100
ThrMax == 950
\* The number of entries the cleanup loop keeps of a history it trims (the
\* last 1000 security events), scaled so that two evaluations exceed it.
max_alert_history == 1

NoValue == "none"
Users == {"u1"}
\* The users of the registry when eviction is examined across users.
EvictionUsers == {"u1", "u2"}
ChallengeTypes == {"pin", "biometric", "sms", "totp"}
\* The workers that serve calls at the same time.
Threads == {1, 2}
\* The callbacks that get registered, in this order.
CallbackIds == {1, 2}
\* Values a session is created with, and values a later call supplies.
StoredContexts ==
    {[device_fingerprint |-> NoValue, ip_address |-> NoValue],
     [device_fingerprint |-> "fpA", ip_address |-> "ipA"]}
ClientContexts ==
    {[device_fingerprint |-> NoValue, ip_address |-> NoValue],
     [device_fingerprint |-> "fpA", ip_address |-> "ipA"],
     [device_fingerprint |-> "fpB", ip_address |-> "ipA"],
     [device_fingerprint |-> "fpA", ip_address |-> "ipB"]}
Contexts == {"default", "payment"}
Levels == {"high_confidence", "medium_confidence", "low_confidence"}
Feedbacks == {"false_positive", "false_negative", "other"}
\* (auth_confidence, anomaly_score) pairs of the scorer: one per decision
\* and severity band, and the pair (0, 1000) of the untrained models.
ScorePairs ==
    {<<1000, 0>>, <<900, 300>>, <<1000, 900>>, <<700, 500>>,
     <<500, 700>>, <<300, 700>>, <<0, 1000>>}
UntrainedScore == <<0, 1000>>
\* The pairs analyze_behavior is applied to on its own.
FusePairs == ScorePairs \cup {<<950, 50>>}
\* The pairs analyze_risk is applied to: every confidence level and base
\* severity, anomaly scores on both sides of 0.7 and 0.8, the scenario
\* (0.6, 0.6) and a combined confidence of 0.15.
RiskPairs ==
    {<<a, n>> : a \in {0, 300, 600, 900}, n \in {0, 600, 750, 900}}
    \cup {<<300, 1000>>, <<950, 50>>}
AdjustScores == {0, 500, 1000}
Confidences == {50 * k : k \in 0..20}
ThresholdConfigs ==
    {[high_confidence |-> 900, medium_confidence |-> 700, low_confidence |-> 500],
     [high_confidence |-> 800, medium_confidence |-> 800, low_confidence |-> 300],
     [high_confidence |-> 950, medium_confidence |-> 200, low_confidence |-> 100],
     [high_confidence |-> 500, medium_confidence |-> 700, low_confidence |-> 600],
     [high_confidence |-> 600, medium_confidence |-> 400, low_confidence |-> 800]}
DefaultThresholds == [high_confidence |-> 900, medium_confidence |-> 700, low_confidence |-> 500]

VARIABLES now, active_sessions, nextSid, auth_sessions, current_session,
          active_challenges, nextCid, auth_stats, thresholds,
          context_adjustments, ret, calls, threads, alert_history,
          callbacks

vars == <<now, active_sessions, nextSid, auth_sessions, current_session,
          active_challenges, nextCid, auth_stats, thresholds,
          context_adjustments, ret, calls, threads, alert_history,
          callbacks>>

\* ---------------------------------------------------------------- helpers
Remove(f, k) == [x \in DOMAIN f \ {k} |-> f[x]]
Put(f, k, v) == [x \in DOMAIN f \cup {k} |-> IF x = k THEN v ELSE f[x]]
Max(a, b) == IF a >= b THEN a ELSE b
Min(a, b) == IF a <= b THEN a ELSE b

\* -------------------------------------------------------------- ConfigManager
\* The confidence level rule of ConfigManager.validate_config.
confidence_levels_valid(levels) ==
    /\ levels.low_confidence <= levels.medium_confidence
    /\ levels.medium_confidence <= levels.high_confidence

\* ------------------------------------------------------ AdaptiveThresholds
\* adjust_threshold writing the new adjustment to every known context.
adjust_threshold_global(adj, context, feedback, current_score) ==
    LET old == IF context \in DOMAIN adj THEN adj[context] ELSE 0
        moved == IF feedback = "false_positive"
                   THEN old - ((learning_rate * current_score) \div 1000)
                 ELSE IF feedback = "false_negative"
                   THEN old + ((learning_rate * (1000 - current_score)) \div 1000)
                 ELSE old
    IN  [x \in DOMAIN adj \cup {context} |-> Max(AdjMin, Min(AdjMax, moved))]

\* adjust_threshold without the clamp of the stored adjustment.
adjust_threshold_unclamped(adj, context, feedback, current_score) ==
    LET old == IF context \in DOMAIN adj THEN adj[context] ELSE 0
        moved == IF feedback = "false_positive"
                   THEN old - ((learning_rate * current_score) \div 1000)
                 ELSE IF feedback = "false_negative"
                   THEN old + ((learning_rate * (1000 - current_score)) \div 1000)
                 ELSE old
    IN  Put(adj, context, moved)

\* adjust_threshold: the new context_adjustments map.
adjust_threshold(adj, context, feedback, current_score) ==
    LET old == IF context \in DOMAIN adj THEN adj[context] ELSE 0
        moved == IF feedback = "false_positive"
                   THEN old - ((learning_rate * current_score) \div 1000)
                 ELSE IF feedback = "false_negative"
                   THEN old + ((learning_rate * (1000 - current_score)) \div 1000)
                 ELSE old
    IN  Put(adj, context, Max(AdjMin, Min(AdjMax, moved)))

\* get_threshold applying the context adjustment to the low level only.
get_threshold_low_only(thr, adj, level, context) ==
    LET base_threshold == IF level \in DOMAIN thr THEN thr[level] ELSE 700
        adjustment == IF context \in DOMAIN adj /\ level = "low_confidence"
                        THEN adj[context] ELSE 0
    IN  Max(ThrMin, Min(ThrMax, base_threshold + adjustment))

get_threshold(thr, adj, level, context) ==
    LET base_threshold == IF level \in DOMAIN thr THEN thr[level] ELSE 700
        adjustment == IF context \in DOMAIN adj THEN adj[context] ELSE 0
    IN  Max(ThrMin, Min(ThrMax, base_threshold + adjustment))

\* ---------------------------------------------------------------- MLManager
\* The chain with the comparison of its second branch reversed.
Decide_reversed(c, high, medium, low) ==
    IF c >= high THEN [decision |-> "continue", confidence_level |-> "high"]
    ELSE IF c <= medium THEN [decision |-> "monitor", confidence_level |-> "medium"]
    ELSE IF c >= low THEN [decision |-> "challenge", confidence_level |-> "low"]
    ELSE [decision |-> "logout", confidence_level |-> "very_low"]

\* The if/elif chain of analyze_behavior on the three effective thresholds.
Decide(c, high, medium, low) ==
    IF c >= high THEN [decision |-> "continue", confidence_level |-> "high"]
    ELSE IF c >= medium THEN [decision |-> "monitor", confidence_level |-> "medium"]
    ELSE IF c >= low THEN [decision |-> "challenge", confidence_level |-> "low"]
    ELSE [decision |-> "logout", confidence_level |-> "very_low"]

\* The fusion with the anomaly score not inverted.
combined_confidence_sum(auth_confidence, anomaly_score) ==
    (auth_confidence + anomaly_score) \div 2

combined_confidence(auth_confidence, anomaly_score) ==
    (auth_confidence + (1000 - anomaly_score)) \div 2

analyze_behavior(thr, adj, auth_confidence, anomaly_score, context) ==
    LET c == combined_confidence(auth_confidence, anomaly_score)
        d == Decide(c, get_threshold(thr, adj, "high_confidence", context),
                       get_threshold(thr, adj, "medium_confidence", context),
                       get_threshold(thr, adj, "low_confidence", context))
    IN  [decision |-> d.decision, confidence_level |-> d.confidence_level,
         combined_confidence |-> c, auth_confidence |-> auth_confidence,
         anomaly_score |-> anomaly_score]

\* ------------------------------------------------------------ ResponseEngine
InSeq(x, s) == \E i \in 1..Len(s) : s[i] = x

RiskFactors(confidence, anomaly_score, device_mismatch, location_change, time_anomaly) ==
    (IF confidence < 300 THEN <<"very_low_behavioral_confidence">>
     ELSE IF confidence < 500 THEN <<"low_behavioral_confidence">> ELSE <<>>)
    \o (IF anomaly_score > 700 THEN <<"high_anomaly_score">> ELSE <<>>)
    \o (IF device_mismatch THEN <<"device_fingerprint_mismatch">> ELSE <<>>)
    \o (IF location_change THEN <<"unusual_location">> ELSE <<>>)
    \o (IF time_anomaly THEN <<"unusual_time_pattern">> ELSE <<>>)

\* The severity with a third rule that sets high whatever the severity was.
calculate_severity_reducing(confidence, anomaly_score, risk_factors) ==
    LET base == IF confidence < 200 THEN "critical"
                ELSE IF confidence < 400 THEN "high"
                ELSE IF confidence < 600 THEN "medium"
                ELSE "low"
        afterAnomaly == IF anomaly_score > 800 /\ base \in {"low", "medium"}
                          THEN "high" ELSE base
    IN  IF InSeq("device_fingerprint_mismatch", risk_factors)
           \/ InSeq("very_low_behavioral_confidence", risk_factors)
          THEN "high" ELSE afterAnomaly

calculate_severity(confidence, anomaly_score, risk_factors) ==
    LET base == IF confidence < 200 THEN "critical"
                ELSE IF confidence < 400 THEN "high"
                ELSE IF confidence < 600 THEN "medium"
                ELSE "low"
        afterAnomaly == IF anomaly_score > 800 /\ base \in {"low", "medium"}
                          THEN "high" ELSE base
    IN  IF (InSeq("device_fingerprint_mismatch", risk_factors)
            \/ InSeq("very_low_behavioral_confidence", risk_factors))
           /\ afterAnomaly # "critical"
          THEN "high" ELSE afterAnomaly

RECURSIVE Unique(_, _)
Unique(actions, seen) ==
    IF actions = <<>> THEN seen
    ELSE IF InSeq(Head(actions), seen) THEN Unique(Tail(actions), seen)
    ELSE Unique(Tail(actions), Append(seen, Head(actions)))

\* The list as built, without the removal of duplicates.
recommend_actions_keep_duplicates(confidence_level, severity, risk_factors) ==
    (IF confidence_level = "high" THEN <<"continue">>
     ELSE IF confidence_level = "medium" THEN <<"monitor", "continue">>
     ELSE IF confidence_level = "low" THEN <<"challenge_pin", "monitor">>
     ELSE <<"logout", "alert_admin">>)
    \o (IF severity = "critical" THEN <<"logout", "alert_admin", "lock_session">>
        ELSE IF severity = "high" THEN <<"challenge_biometric", "restrict_functions">>
        ELSE <<>>)
    \o (IF InSeq("device_fingerprint_mismatch", risk_factors)
          THEN <<"challenge_sms">> ELSE <<>>)
    \o (IF InSeq("unusual_location", risk_factors)
          THEN <<"challenge_biometric">> ELSE <<>>)

\* The list with the two actions of the low confidence level exchanged.
recommend_actions_monitor_first(confidence_level, severity, risk_factors) ==
    Unique((IF confidence_level = "high" THEN <<"continue">>
            ELSE IF confidence_level = "medium" THEN <<"monitor", "continue">>
            ELSE IF confidence_level = "low" THEN <<"monitor", "challenge_pin">>
            ELSE <<"logout", "alert_admin">>)
           \o (IF severity = "critical"
                 THEN <<"logout", "alert_admin", "lock_session">>
               ELSE IF severity = "high"
                 THEN <<"challenge_biometric", "restrict_functions">>
               ELSE <<>>)
           \o (IF InSeq("device_fingerprint_mismatch", risk_factors)
                 THEN <<"challenge_sms">> ELSE <<>>)
           \o (IF InSeq("unusual_location", risk_factors)
                 THEN <<"challenge_biometric">> ELSE <<>>), <<>>)

recommend_actions(confidence_level, severity, risk_factors) ==
    LET fromLevel ==
            IF confidence_level = "high" THEN <<"continue">>
            ELSE IF confidence_level = "medium" THEN <<"monitor", "continue">>
            ELSE IF confidence_level = "low" THEN <<"challenge_pin", "monitor">>
            ELSE <<"logout", "alert_admin">>
        fromSeverity ==
            IF severity = "critical" THEN <<"logout", "alert_admin", "lock_session">>
            ELSE IF severity = "high" THEN <<"challenge_biometric", "restrict_functions">>
            ELSE <<>>
        fromFactors ==
            (IF InSeq("device_fingerprint_mismatch", risk_factors)
               THEN <<"challenge_sms">> ELSE <<>>)
            \o (IF InSeq("unusual_location", risk_factors)
               THEN <<"challenge_biometric">> ELSE <<>>)
    IN  Unique(fromLevel \o fromSeverity \o fromFactors, <<>>)

\* analyze_risk reads the three context flags with .get(key, False).
analyze_risk(analysis, device_mismatch, location_change, time_anomaly) ==
    LET rf == RiskFactors(analysis.combined_confidence, analysis.anomaly_score,
                          device_mismatch, location_change, time_anomaly)
        sev == calculate_severity(analysis.combined_confidence, analysis.anomaly_score, rf)
    IN  [severity |-> sev, risk_factors |-> rf,
         recommended_actions |-> recommend_actions(analysis.confidence_level, sev, rf)]

\* ------------------------------------------------------------ SessionManager
is_valid(token, t) == t < token.expires_at

is_expired(token, t) == ~is_valid(token, t)

\* The idle check against the absolute session timeout.
idle_expired_absolute(token, t) == t - token.last_activity > session_timeout

idle_expired(token, t) == t - token.last_activity > idle_timeout

invalidate_session(S, session_id) ==
    IF session_id \in DOMAIN S THEN Remove(S, session_id) ELSE S

\* min(user_sessions, key=created_at): the first minimal token in insertion
\* order, and session ids are issued in increasing order.
Oldest(S, ids) ==
    CHOOSE s \in ids : \A o \in ids :
        \/ S[s].created_at < S[o].created_at
        \/ (S[s].created_at = S[o].created_at /\ s <= o)

\* create_session evicting only above the limit (> for >=).
create_session_late_limit(S, session_id, user_id, device_fingerprint, ip_address, t) ==
    LET user_sessions == {s \in DOMAIN S : S[s].user_id = user_id}
        kept == IF Cardinality(user_sessions) > max_concurrent
                  THEN invalidate_session(S, Oldest(S, user_sessions))
                  ELSE S
    IN  Put(kept, session_id,
            [user_id |-> user_id, created_at |-> t,
             expires_at |-> t + session_timeout, last_activity |-> t,
             device_fingerprint |-> device_fingerprint,
             ip_address |-> ip_address])

create_session(S, session_id, user_id, device_fingerprint, ip_address, t) ==
    LET user_sessions == {s \in DOMAIN S : S[s].user_id = user_id}
        kept == IF Cardinality(user_sessions) >= max_concurrent
                  THEN invalidate_session(S, Oldest(S, user_sessions))
                  ELSE S
    IN  Put(kept, session_id,
            [user_id |-> user_id, created_at |-> t,
             expires_at |-> t + session_timeout, last_activity |-> t,
             device_fingerprint |-> device_fingerprint,
             ip_address |-> ip_address])

\* validate_session rejecting a fingerprint mismatch without invalidating.
validate_session_keep_on_mismatch(S, session_id, device_fingerprint, ip_address, t) ==
    IF session_id \notin DOMAIN S THEN [ok |-> FALSE, sessions |-> S]
    ELSE IF is_expired(S[session_id], t)
      THEN [ok |-> FALSE, sessions |-> invalidate_session(S, session_id)]
    ELSE IF idle_expired(S[session_id], t)
      THEN [ok |-> FALSE, sessions |-> invalidate_session(S, session_id)]
    ELSE IF device_fingerprint # NoValue
            /\ S[session_id].device_fingerprint # NoValue
            /\ device_fingerprint # S[session_id].device_fingerprint
      THEN [ok |-> FALSE, sessions |-> S]
    ELSE [ok |-> TRUE,
          sessions |-> [S EXCEPT ![session_id].last_activity = t]]

\* validate_session treating an IP mismatch like a fingerprint mismatch.
validate_session_ip_gate(S, session_id, device_fingerprint, ip_address, t) ==
    IF session_id \notin DOMAIN S THEN [ok |-> FALSE, sessions |-> S]
    ELSE IF is_expired(S[session_id], t)
      THEN [ok |-> FALSE, sessions |-> invalidate_session(S, session_id)]
    ELSE IF idle_expired(S[session_id], t)
      THEN [ok |-> FALSE, sessions |-> invalidate_session(S, session_id)]
    ELSE IF device_fingerprint # NoValue
            /\ S[session_id].device_fingerprint # NoValue
            /\ device_fingerprint # S[session_id].device_fingerprint
      THEN [ok |-> FALSE, sessions |-> invalidate_session(S, session_id)]
    ELSE IF ip_address # NoValue
            /\ S[session_id].ip_address # NoValue
            /\ ip_address # S[session_id].ip_address
      THEN [ok |-> FALSE, sessions |-> invalidate_session(S, session_id)]
    ELSE [ok |-> TRUE,
          sessions |-> [S EXCEPT ![session_id].last_activity = t]]

\* validate_session: whether a token is returned, and the session map after.
validate_session(S, session_id, device_fingerprint, ip_address, t) ==
    IF session_id \notin DOMAIN S THEN [ok |-> FALSE, sessions |-> S]
    ELSE IF is_expired(S[session_id], t)
      THEN [ok |-> FALSE, sessions |-> invalidate_session(S, session_id)]
    ELSE IF idle_expired(S[session_id], t)
      THEN [ok |-> FALSE, sessions |-> invalidate_session(S, session_id)]
    ELSE IF device_fingerprint # NoValue
            /\ S[session_id].device_fingerprint # NoValue
            /\ device_fingerprint # S[session_id].device_fingerprint
      THEN [ok |-> FALSE, sessions |-> invalidate_session(S, session_id)]
    ELSE [ok |-> TRUE,
          sessions |-> [S EXCEPT ![session_id].last_activity = t]]

cleanup_expired_sessions(S, t) ==
    LET expired_sessions == {s \in DOMAIN S :
                               is_expired(S[s], t) \/ idle_expired(S[s], t)}
    IN  [s \in DOMAIN S \ expired_sessions |-> S[s]]

\* ---------------------------------------------------------- ChallengeManager
PinResponses ==
    {[pin |-> p, expected_pin |-> e, biometric_data |-> FALSE,
      biometric_confidence |-> 0, sms_code |-> "", expected_code |-> ""] :
        p \in {"", "1234", "9999"}, e \in {"1234", "9999"}}
BiometricResponses ==
    {[pin |-> "", expected_pin |-> "", biometric_data |-> d,
      biometric_confidence |-> c, sms_code |-> "", expected_code |-> ""] :
        d \in BOOLEAN, c \in {799, 800}}
SmsResponses ==
    {[pin |-> "", expected_pin |-> "", biometric_data |-> FALSE,
      biometric_confidence |-> 0, sms_code |-> c, expected_code |-> e] :
        c \in {"", "42"}, e \in {"42"}}
Responses == PinResponses \cup BiometricResponses \cup SmsResponses

validate_pin_challenge(response) ==
    IF response.pin = "" THEN [success |-> FALSE, message |-> "PIN not provided"]
    ELSE IF response.pin = response.expected_pin
      THEN [success |-> TRUE, message |-> "PIN verified"]
    ELSE [success |-> FALSE, message |-> "Invalid PIN"]

validate_biometric_challenge(response) ==
    IF ~response.biometric_data
      THEN [success |-> FALSE, message |-> "Biometric data not provided"]
    ELSE IF response.biometric_confidence >= 800
      THEN [success |-> TRUE, message |-> "Biometric verified"]
    ELSE [success |-> FALSE, message |-> "Biometric verification failed"]

validate_sms_challenge(response) ==
    IF response.sms_code = ""
      THEN [success |-> FALSE, message |-> "SMS code not provided"]
    ELSE IF response.sms_code = response.expected_code
      THEN [success |-> TRUE, message |-> "SMS code verified"]
    ELSE [success |-> FALSE, message |-> "Invalid SMS code"]

validate_challenge_response(challenge, response) ==
    IF challenge.challenge_type = "pin" THEN validate_pin_challenge(response)
    ELSE IF challenge.challenge_type = "biometric"
      THEN validate_biometric_challenge(response)
    ELSE IF challenge.challenge_type = "sms" THEN validate_sms_challenge(response)
    ELSE [success |-> FALSE, message |-> "Unknown challenge type"]

create_challenge(C, challenge_id, challenge_type, user_id, session_id, t) ==
    Put(C, challenge_id,
        [challenge_type |-> challenge_type, user_id |-> user_id,
         session_id |-> session_id, created_at |-> t,
         expires_at |-> t + challenge_timeout,
         attempts_remaining |-> max_attempts,
         is_completed |-> FALSE, is_successful |-> FALSE])

\* The update with the exhaustion test off by one (< 0 for <= 0).
FailedAttempt_late(challenge, message) ==
    LET left == challenge.attempts_remaining - 1
    IN  IF left < 0
          THEN [challenge |-> [challenge EXCEPT !.attempts_remaining = left,
                                                !.is_completed = TRUE,
                                                !.is_successful = FALSE],
                message |-> "Maximum attempts exceeded"]
          ELSE [challenge |-> [challenge EXCEPT !.attempts_remaining = left],
                message |-> message]

\* The update without the exhaustion test: a failure only takes an attempt.
FailedAttempt_unbounded(challenge, message) ==
    [challenge |-> [challenge EXCEPT !.attempts_remaining = @ - 1],
     message |-> message]

\* The state update of process_challenge_response after a failed validation.
FailedAttempt(challenge, message) ==
    LET left == challenge.attempts_remaining - 1
    IN  IF left <= 0
          THEN [challenge |-> [challenge EXCEPT !.attempts_remaining = left,
                                                !.is_completed = TRUE,
                                                !.is_successful = FALSE],
                message |-> "Maximum attempts exceeded"]
          ELSE [challenge |-> [challenge EXCEPT !.attempts_remaining = left],
                message |-> message]

\* The call without the test of is_completed: every response is validated.
process_challenge_response_revalidate(C, challenge_id, response, t) ==
    IF challenge_id \notin DOMAIN C
      THEN [success |-> FALSE, message |-> "Challenge not found or expired",
            challenges |-> C]
    ELSE IF t > C[challenge_id].expires_at
      THEN [success |-> FALSE, message |-> "Challenge expired",
            challenges |-> Remove(C, challenge_id)]
    ELSE LET v == validate_challenge_response(C[challenge_id], response)
             f == FailedAttempt(C[challenge_id], v.message)
         IN  IF v.success
               THEN [success |-> TRUE, message |-> v.message,
                     challenges |-> [C EXCEPT ![challenge_id].is_completed = TRUE,
                                              ![challenge_id].is_successful = TRUE]]
               ELSE [success |-> FALSE, message |-> f.message,
                     challenges |-> [C EXCEPT ![challenge_id] = f.challenge]]

\* The call without the test of expires_at: a late response is validated.
process_challenge_response_unexpiring(C, challenge_id, response, t) ==
    IF challenge_id \notin DOMAIN C
      THEN [success |-> FALSE, message |-> "Challenge not found or expired",
            challenges |-> C]
    ELSE IF C[challenge_id].is_completed
      THEN [success |-> C[challenge_id].is_successful,
            message |-> "Challenge already completed", challenges |-> C]
    ELSE LET v == validate_challenge_response(C[challenge_id], response)
             f == FailedAttempt(C[challenge_id], v.message)
         IN  IF v.success
               THEN [success |-> TRUE, message |-> v.message,
                     challenges |-> [C EXCEPT ![challenge_id].is_completed = TRUE,
                                              ![challenge_id].is_successful = TRUE]]
               ELSE [success |-> FALSE, message |-> f.message,
                     challenges |-> [C EXCEPT ![challenge_id] = f.challenge]]

process_challenge_response(C, challenge_id, response, t) ==
    IF challenge_id \notin DOMAIN C
      THEN [success |-> FALSE, message |-> "Challenge not found or expired",
            challenges |-> C]
    ELSE IF t > C[challenge_id].expires_at
      THEN [success |-> FALSE, message |-> "Challenge expired",
            challenges |-> Remove(C, challenge_id)]
    ELSE IF C[challenge_id].is_completed
      THEN [success |-> C[challenge_id].is_successful,
            message |-> "Challenge already completed", challenges |-> C]
    ELSE LET v == validate_challenge_response(C[challenge_id], response)
             f == FailedAttempt(C[challenge_id], v.message)
         IN  IF v.success
               THEN [success |-> TRUE, message |-> v.message,
                     challenges |-> [C EXCEPT ![challenge_id].is_completed = TRUE,
                                              ![challenge_id].is_successful = TRUE]]
               ELSE [success |-> FALSE, message |-> f.message,
                     challenges |-> [C EXCEPT ![challenge_id] = f.challenge]]

cleanup_expired_challenges(C, t) ==
    [c \in {x \in DOMAIN C : ~(t > C[x].expires_at \/ C[x].is_completed)} |-> C[c]]

\* --------------------------------------------------- AdaptiveResponseManager
\* _execute_response_actions: only the two step-up actions with a handler
\* change state that is kept here; each creates a challenge under a fresh id.
RECURSIVE execute_response_actions(_, _, _, _, _, _)
execute_response_actions(actions, C, cid, user_id, session_id, t) ==
    IF actions = <<>> THEN [challenges |-> C, nextCid |-> cid]
    ELSE IF Head(actions) = "challenge_pin"
      THEN execute_response_actions(Tail(actions),
               create_challenge(C, cid, "pin", user_id, session_id, t),
               cid + 1, user_id, session_id, t)
    ELSE IF Head(actions) = "challenge_biometric"
      THEN execute_response_actions(Tail(actions),
               create_challenge(C, cid, "biometric", user_id, session_id, t),
               cid + 1, user_id, session_id, t)
    ELSE execute_response_actions(Tail(actions), C, cid, user_id, session_id, t)

\* process_behavioral_analysis stores the alert before it executes the
\* actions.  An alert is kept as its id (a fresh uuid: the number of alerts
\* stored before it, plus one) and the session it was raised for.
append_alert(history, session_id) ==
    Append(history, [alert_id |-> Len(history) + 1, session_id |-> session_id])

\* _execute_single_action: the actions its if/elif chain has a branch for,
\* and what it returns for an action (the challenge branches succeed when
\* create_challenge returns a challenge, which it does unless it raises).
HandledActions ==
    {"continue", "monitor", "challenge_pin", "challenge_biometric",
     "restrict_functions", "logout", "alert_admin"}

execute_single_action(action) ==
    IF action \in HandledActions
      THEN [success |-> TRUE, message |-> action]
      ELSE [success |-> FALSE, message |-> "Unknown action"]

\* -------------------------------------------------------------- callbacks
Range(s) == {s[i] : i \in 1..Len(s)}

\* The notification loop without its try/except: the first callback that
\* raises ends the loop and the exception leaves the loop.
notify_callbacks_unguarded(registered, raising) ==
    LET bad == {i \in 1..Len(registered) : registered[i] \in raising}
        first == CHOOSE i \in bad : \A j \in bad : i <= j
    IN  IF bad = {} THEN [notified |-> registered, raised |-> FALSE]
        ELSE [notified |-> SubSeq(registered, 1, first), raised |-> TRUE]

\* The loops of _log_security_event and _notify_auth_callbacks: every
\* registered callback is called inside its own try/except, so the callbacks
\* in raising are logged and the loop goes on; nothing leaves the loop.
notify_callbacks(registered, raising) ==
    [notified |-> registered, raised |-> FALSE]

\* ------------------------------------------------------------------- state
\* What the last call was given and returned.  ip and risk_score are filled
\* in by ValidateSession, confidence and actions by Authenticate; AnalyzeRisk
\* fills severity, actions and input (the scores and context flags given);
\* notified lists the callbacks the call invoked and raised those of them
\* that raised an exception.
Result(op, id, fp, ok, decision, message) ==
    [op |-> op, id |-> id, fp |-> fp, ok |-> ok, decision |-> decision,
     message |-> message, ip |-> NoValue, risk_score |-> 0, confidence |-> 0,
     severity |-> "", actions |-> <<>>, input |-> <<>>,
     notified |-> <<>>, raised |-> {}]

\* A request-handling worker that is not inside a call.  Inside a call it
\* holds the call's position (pc), the id it was given, what it has computed
\* so far and the counter value it has read; done counts the evaluations it
\* has finished.
IdleThread ==
    [pc |-> "idle", id |-> 0, success |-> FALSE, message |-> "",
     confidence |-> 0, loaded |-> 0, done |-> 0]

\* The result of a call that ran a notification loop.
WithCallbacks(result, n, raising) ==
    [result EXCEPT !.notified = n.notified,
                   !.raised = raising \cap Range(n.notified)]

NoSession == [exists |-> FALSE, session_id |-> 0, is_active |-> FALSE]

InitCommon ==
    /\ now = 0
    /\ active_sessions = <<>>
    /\ nextSid = 1
    /\ auth_sessions = <<>>
    /\ current_session = NoSession
    /\ active_challenges = <<>>
    /\ nextCid = 1
    /\ auth_stats = [total_authentications |-> 0,
                     successful_authentications |-> 0,
                     challenged_authentications |-> 0,
                     failed_authentications |-> 0]
    /\ context_adjustments = <<>>
    /\ ret = Result("init", 0, NoValue, FALSE, "", "")
    /\ calls = 0
    /\ threads = [t \in Threads |-> IdleThread]
    /\ alert_history = <<>>
    /\ callbacks = [event_callbacks |-> <<>>, auth_callbacks |-> <<>>]

Init == InitCommon /\ thresholds = DefaultThresholds

\* Session ids are fresh random tokens: 0 stands for an id that was never
\* issued, 1..nextSid-1 are the ids issued so far.  Likewise challenge ids.
KnownSids == 0..(nextSid - 1)
KnownCids == 0..(nextCid - 1)

\* Features reported for a behavioral session that was stopped.
HasFeatures_stale == current_session.exists

\* BehavioralDataManager.get_current_features returns None without an
\* active behavioral session.
HasFeatures == current_session.exists /\ current_session.is_active

\* ----------------------------------------------------------------- actions
Tick ==
    /\ now < MaxTime
    /\ now' = now + 1
    /\ ret' = Result("Tick", 0, NoValue, TRUE, "", "")
    /\ UNCHANGED <<active_sessions, nextSid, auth_sessions, current_session,
                   active_challenges, nextCid, auth_stats, thresholds,
                   context_adjustments,
                       alert_history>>

\* AuthenticationManager.start_authentication_session, through
\* SecurityManager.create_secure_session and BehavioralDataManager.start_session.
StartAuthenticationSession(user_id, fp, ip) ==
    LET sid == nextSid
        created == create_session(active_sessions, sid, user_id, fp, ip, now)
        started == ~HasFeatures
    IN  \E raising \in SUBSET Range(callbacks.event_callbacks) :
        LET n == notify_callbacks(callbacks.event_callbacks, raising)
        IN  /\ nextSid' = nextSid + 1
            /\ IF n.raised
                 THEN \* create_secure_session catches the exception and
                      \* returns None after the session was registered
                      /\ active_sessions' = created
                      /\ ret' = WithCallbacks(
                             Result("StartAuthenticationSession", 0, fp, FALSE, "", ""),
                             n, raising)
                      /\ UNCHANGED <<current_session, auth_sessions>>
               ELSE IF started
                 THEN /\ active_sessions' = created
                      /\ current_session' = [exists |-> TRUE, session_id |-> sid,
                                             is_active |-> TRUE]
                      /\ auth_sessions' = Put(auth_sessions, sid,
                             [user_id |-> user_id, start_time |-> now,
                              authentication_count |-> 0])
                      /\ ret' = WithCallbacks(
                             Result("StartAuthenticationSession", sid, fp, TRUE, "", ""),
                             n, raising)
                 ELSE /\ active_sessions' = invalidate_session(created, sid)
                      /\ ret' = WithCallbacks(
                             Result("StartAuthenticationSession", 0, fp, FALSE, "", ""),
                             n, raising)
                      /\ UNCHANGED <<current_session, auth_sessions>>
            /\ UNCHANGED <<now, active_challenges, nextCid, auth_stats, thresholds,
                           context_adjustments, alert_history>>

\* SecurityManager._assess_session_security on the token that validated.
\* One hour is 12 units of time.
assess_session_security(token, device_fingerprint, ip_address, t) ==
    LET fromDevice == IF device_fingerprint # NoValue
                         /\ token.device_fingerprint # NoValue
                         /\ device_fingerprint # token.device_fingerprint
                        THEN 300 ELSE 0
        fromIp == IF ip_address # NoValue /\ token.ip_address # NoValue
                     /\ ip_address # token.ip_address
                    THEN 200 ELSE 0
        fromAge == IF t - token.created_at > 12 THEN 100 ELSE 0
        risk_score == fromDevice + fromIp + fromAge
    IN  [risk_score |-> risk_score,
         security_level |-> IF risk_score >= 500 THEN "high"
                            ELSE IF risk_score >= 300 \/ fromDevice > 0 THEN "medium"
                            ELSE "low",
         requires_additional_auth |-> risk_score >= 500]

\* SecurityManager.validate_session over SessionManager.validate_session.
ValidateSession(sid, fp, ip) ==
    LET v == validate_session(active_sessions, sid, fp, ip, now)
        risk == IF v.ok
                  THEN assess_session_security(v.sessions[sid], fp, ip, now).risk_score
                  ELSE 0
        result == [Result("ValidateSession", sid, fp, v.ok, "", "")
                     EXCEPT !.ip = ip, !.risk_score = risk]
    IN  \E raising \in SUBSET Range(callbacks.event_callbacks) :
        LET n == notify_callbacks(callbacks.event_callbacks, raising)
        IN  /\ active_sessions' = v.sessions
            /\ ret' = IF v.ok THEN result
                      ELSE \* an exception that left the loop would be caught
                           \* and answered with (False, None) as well
                           WithCallbacks(result, n, raising)
            /\ UNCHANGED <<now, nextSid, auth_sessions, current_session,
                           active_challenges, nextCid, auth_stats, thresholds,
                           context_adjustments, alert_history>>

\* _update_auth_stats
update_auth_stats(stats, decision) ==
    LET counted ==
          IF decision = "continue"
            THEN [stats EXCEPT !.successful_authentications = @ + 1]
          ELSE IF decision \in {"challenge", "monitor"}
            THEN [stats EXCEPT !.challenged_authentications = @ + 1]
          ELSE [stats EXCEPT !.failed_authentications = @ + 1]
    IN  [counted EXCEPT !.total_authentications = @ + 1]

\* AuthenticationManager.authenticate_continuously.
Authenticate(sid, fp, ip, context, auth_confidence, anomaly_score) ==
    LET v == validate_session(active_sessions, sid, fp, ip, now)
        ml == analyze_behavior(thresholds, context_adjustments,
                               auth_confidence, anomaly_score, context)
        alert == analyze_risk(ml, FALSE, FALSE, FALSE)
        user_id == IF v.ok THEN active_sessions[sid].user_id ELSE "unknown"
        done == execute_response_actions(alert.recommended_actions,
                    active_challenges, nextCid, user_id, sid, now)
    IN  \E raising \in SUBSET (Range(callbacks.event_callbacks)
                               \cup Range(callbacks.auth_callbacks)) :
        LET logged == notify_callbacks(callbacks.event_callbacks, raising)
            told == notify_callbacks(callbacks.auth_callbacks, raising)
        IN  /\ active_sessions' = v.sessions
            /\ IF ~v.ok
                 THEN /\ ret' = WithCallbacks(
                             Result("Authenticate", sid, fp, FALSE, "logout",
                                    "Session validation failed"), logged, raising)
                      /\ UNCHANGED <<auth_sessions, active_challenges, nextCid,
                                     auth_stats, alert_history>>
               ELSE IF ~HasFeatures
                 THEN /\ ret' = [Result("Authenticate", sid, fp, TRUE, "monitor",
                                        "Insufficient behavioral data")
                                    EXCEPT !.confidence = 500]
                      /\ UNCHANGED <<auth_sessions, active_challenges, nextCid,
                                     auth_stats, alert_history>>
               ELSE IF sid \notin DOMAIN auth_sessions
                 THEN \* KeyError on self.active_sessions[session_id], caught
                      /\ ret' = Result("Authenticate", sid, fp, FALSE, "logout",
                                       "Authentication system error")
                      /\ UNCHANGED <<auth_sessions, active_challenges, nextCid,
                                     auth_stats, alert_history>>
               ELSE /\ alert_history' = append_alert(alert_history, sid)
                    /\ active_challenges' = done.challenges
                    /\ nextCid' = done.nextCid
                    /\ auth_sessions' = [auth_sessions EXCEPT
                                           ![sid].authentication_count = @ + 1]
                    /\ auth_stats' = update_auth_stats(auth_stats, ml.decision)
                    /\ ret' = WithCallbacks(
                           IF told.raised
                             THEN Result("Authenticate", sid, fp, FALSE, "logout",
                                         "Authentication system error")
                             ELSE [Result("Authenticate", sid, fp,
                                          ml.decision \in {"continue", "monitor"},
                                          ml.decision, "decision")
                                     EXCEPT !.confidence = ml.combined_confidence,
                                            !.actions = alert.recommended_actions],
                           told, raising)
            /\ UNCHANGED <<now, nextSid, current_session, thresholds,
                           context_adjustments>>

\* AuthenticationManager.handle_challenge_response.
HandleChallengeResponse(cid, response) ==
    LET r == process_challenge_response(active_challenges, cid, response, now)
    IN  /\ active_challenges' = r.challenges
        /\ auth_stats' = IF r.success
                           THEN [auth_stats EXCEPT !.successful_authentications = @ + 1]
                           ELSE [auth_stats EXCEPT !.failed_authentications = @ + 1]
        /\ ret' = Result("HandleChallengeResponse", cid, NoValue, r.success,
                         "", r.message)
        /\ UNCHANGED <<now, active_sessions, nextSid, auth_sessions,
                       current_session, nextCid, thresholds,
                       context_adjustments,
                       alert_history>>

\* AuthenticationManager.end_session.
EndSession(sid) ==
    /\ current_session' = IF current_session.exists
                            THEN [current_session EXCEPT !.is_active = FALSE]
                            ELSE current_session
    /\ active_sessions' = invalidate_session(active_sessions, sid)
    /\ auth_sessions' = IF sid \in DOMAIN auth_sessions
                          THEN Remove(auth_sessions, sid) ELSE auth_sessions
    /\ ret' = Result("EndSession", sid, NoValue, TRUE, "", "")
    /\ UNCHANGED <<now, nextSid, active_challenges, nextCid, auth_stats,
                   thresholds, context_adjustments,
                       alert_history>>

\* The session sweep of SecurityManager._cleanup_loop.
CleanupExpired ==
    LET kept == cleanup_expired_sessions(active_sessions, now)
    IN  /\ active_sessions' = kept
        /\ ret' = Result("CleanupExpired",
                         Cardinality(DOMAIN active_sessions \ DOMAIN kept),
                         NoValue, TRUE, "", "")
        /\ UNCHANGED <<now, nextSid, auth_sessions, current_session,
                       active_challenges, nextCid, auth_stats, thresholds,
                       context_adjustments,
                       alert_history>>

\* SecurityManager.create_secure_session over SessionManager.create_session.
CreateSession(user_id, fp, ip) ==
    \E raising \in SUBSET Range(callbacks.event_callbacks) :
        LET n == notify_callbacks(callbacks.event_callbacks, raising)
        IN  /\ nextSid' = nextSid + 1
            /\ active_sessions' = create_session(active_sessions, nextSid,
                                                 user_id, fp, ip, now)
            /\ ret' = WithCallbacks(
                   IF n.raised
                     THEN Result("CreateSession", 0, fp, FALSE, "", "")
                     ELSE Result("CreateSession", nextSid, fp, TRUE, "", ""),
                   n, raising)
            /\ UNCHANGED <<now, auth_sessions, current_session, active_challenges,
                           nextCid, auth_stats, thresholds, context_adjustments,
                           alert_history>>

\* SessionManager.invalidate_session.
InvalidateSession(sid) ==
    /\ active_sessions' = invalidate_session(active_sessions, sid)
    /\ ret' = Result("InvalidateSession", sid, NoValue,
                     sid \in DOMAIN active_sessions, "", "")
    /\ UNCHANGED <<now, nextSid, auth_sessions, current_session,
                   active_challenges, nextCid, auth_stats, thresholds,
                   context_adjustments,
                       alert_history>>

\* ChallengeManager.create_challenge.
CreateChallenge(challenge_type, user_id, session_id) ==
    /\ nextCid <= MaxChallenges
    /\ nextCid' = nextCid + 1
    /\ active_challenges' = create_challenge(active_challenges, nextCid,
                                challenge_type, user_id, session_id, now)
    /\ ret' = Result("CreateChallenge", nextCid, NoValue, TRUE, "", "")
    /\ UNCHANGED <<now, active_sessions, nextSid, auth_sessions,
                   current_session, auth_stats, thresholds, context_adjustments,
                       alert_history>>

\* ChallengeManager.process_challenge_response.
ProcessChallengeResponse(cid, response) ==
    LET r == process_challenge_response(active_challenges, cid, response, now)
    IN  /\ active_challenges' = r.challenges
        /\ ret' = Result("ProcessChallengeResponse", cid, NoValue, r.success,
                         "", r.message)
        /\ UNCHANGED <<now, active_sessions, nextSid, auth_sessions,
                       current_session, nextCid, auth_stats, thresholds,
                       context_adjustments,
                       alert_history>>

\* ChallengeManager.cleanup_expired_challenges.
CleanupExpiredChallenges ==
    LET kept == cleanup_expired_challenges(active_challenges, now)
    IN  /\ active_challenges' = kept
        /\ ret' = Result("CleanupExpiredChallenges",
                         Cardinality(DOMAIN active_challenges \ DOMAIN kept),
                         NoValue, TRUE, "", "")
        /\ UNCHANGED <<now, active_sessions, nextSid, auth_sessions,
                       current_session, nextCid, auth_stats, thresholds,
                       context_adjustments,
                       alert_history>>

\* AdaptiveThresholds.adjust_threshold.
AdjustThreshold(context, feedback, current_score) ==
    /\ context_adjustments' = adjust_threshold(context_adjustments, context,
                                               feedback, current_score)
    /\ ret' = Result("AdjustThreshold", 0, NoValue, TRUE, "", context)
    /\ UNCHANGED <<now, active_sessions, nextSid, auth_sessions,
                   current_session, active_challenges, nextCid, auth_stats,
                   thresholds,
                       alert_history>>

\* MLManager.analyze_behavior: the decision and the combined confidence.
AnalyzeBehavior(auth_confidence, anomaly_score, context) ==
    LET ml == analyze_behavior(thresholds, context_adjustments,
                               auth_confidence, anomaly_score, context)
    IN  /\ ret' = Result("AnalyzeBehavior", ml.combined_confidence, NoValue,
                         TRUE, ml.decision, context)
        /\ UNCHANGED <<now, active_sessions, nextSid, auth_sessions,
                       current_session, active_challenges, nextCid,
                       auth_stats, thresholds, context_adjustments,
                       alert_history>>

\* ResponseEngine.analyze_risk on the analysis of MLManager.analyze_behavior,
\* with the three flags of the security context.
AnalyzeRisk(auth_confidence, anomaly_score, device_mismatch, location_change, time_anomaly) ==
    LET ml == analyze_behavior(thresholds, context_adjustments,
                               auth_confidence, anomaly_score, "default")
        alert == analyze_risk(ml, device_mismatch, location_change, time_anomaly)
    IN  /\ ret' = [Result("AnalyzeRisk", 0, NoValue, TRUE, ml.decision, "")
                     EXCEPT !.confidence = ml.combined_confidence,
                            !.severity = alert.severity,
                            !.actions = alert.recommended_actions,
                            !.input = <<auth_confidence, anomaly_score,
                                        device_mismatch, location_change,
                                        time_anomaly>>]
        /\ UNCHANGED <<now, active_sessions, nextSid, auth_sessions,
                       current_session, active_challenges, nextCid,
                       auth_stats, thresholds, context_adjustments,
                       alert_history>>

\* SecurityManager.add_security_callback.
AddSecurityCallback(callback) ==
    /\ callback \notin Range(callbacks.event_callbacks)
    /\ callback = Len(callbacks.event_callbacks) + 1
    /\ callbacks' = [callbacks EXCEPT !.event_callbacks = Append(@, callback)]
    /\ ret' = Result("AddSecurityCallback", callback, NoValue, TRUE, "", "")
    /\ UNCHANGED <<now, active_sessions, nextSid, auth_sessions,
                   current_session, active_challenges, nextCid, auth_stats,
                   thresholds, context_adjustments, alert_history>>

\* AuthenticationManager.add_authentication_callback.
AddAuthenticationCallback(callback) ==
    /\ callback \notin Range(callbacks.auth_callbacks)
    /\ callback = Len(callbacks.auth_callbacks) + 1
    /\ callbacks' = [callbacks EXCEPT !.auth_callbacks = Append(@, callback)]
    /\ ret' = Result("AddAuthenticationCallback", callback, NoValue, TRUE, "", "")
    /\ UNCHANGED <<now, active_sessions, nextSid, auth_sessions,
                   current_session, active_challenges, nextCid, auth_stats,
                   thresholds, context_adjustments, alert_history>>

\* AuthenticationManager.get_session_status: a status with is_active = True
\* for an id in the orchestrator's own active_sessions, None otherwise.
GetSessionStatus(sid) ==
    /\ ret' = Result("GetSessionStatus", sid, NoValue,
                     sid \in DOMAIN auth_sessions, "", "")
    /\ UNCHANGED <<now, active_sessions, nextSid, auth_sessions,
                   current_session, active_challenges, nextCid, auth_stats,
                   thresholds, context_adjustments, alert_history>>

\* A behaviour makes at most budget calls of the public interface.
Called(budget) == calls < budget /\ calls' = calls + 1

Next ==
    \/ Tick /\ UNCHANGED <<calls, threads, callbacks>>
    \/ \E u \in Users, c \in StoredContexts :
          /\ Called(MaxCalls) /\ UNCHANGED <<threads, callbacks>>
          /\ StartAuthenticationSession(u, c.device_fingerprint, c.ip_address)
    \/ \E sid \in KnownSids, c \in ClientContexts :
          /\ Called(MaxCalls) /\ UNCHANGED <<threads, callbacks>>
          /\ ValidateSession(sid, c.device_fingerprint, c.ip_address)
    \/ \E sid \in KnownSids, c \in ClientContexts, score \in ScorePairs :
          /\ Called(MaxCalls) /\ UNCHANGED <<threads, callbacks>>
          /\ Authenticate(sid, c.device_fingerprint, c.ip_address, "default",
                          score[1], score[2])
    \/ \E sid \in KnownSids : Called(MaxCalls) /\ UNCHANGED <<threads, callbacks>> /\ EndSession(sid)
    \/ Called(MaxCalls) /\ UNCHANGED <<threads, callbacks>> /\ CleanupExpired

Spec == Init /\ [][Next]_vars

\* Challenge resolution through the orchestrator.
NextResponse ==
    \/ \E u \in Users, c \in StoredContexts :
          /\ Called(MaxResponseCalls) /\ UNCHANGED <<threads, callbacks>>
          /\ StartAuthenticationSession(u, c.device_fingerprint, c.ip_address)
    \/ \E sid \in KnownSids, c \in ClientContexts, score \in ScorePairs :
          /\ Called(MaxResponseCalls) /\ UNCHANGED <<threads, callbacks>>
          /\ Authenticate(sid, c.device_fingerprint, c.ip_address, "default",
                          score[1], score[2])
    \/ \E cid \in KnownCids, response \in Responses :
          /\ Called(MaxResponseCalls) /\ UNCHANGED <<threads, callbacks>>
          /\ HandleChallengeResponse(cid, response)

SpecResponse == Init /\ [][NextResponse]_vars

\* The session registry, with sessions created by the SecurityManager and
\* no behavioral session started: Authenticate never reaches the scorer.
NextRegistry ==
    \/ Tick /\ UNCHANGED <<calls, threads, callbacks>>
    \/ \E u \in Users, c \in StoredContexts :
          /\ nextSid <= MaxSessions
          /\ CreateSession(u, c.device_fingerprint, c.ip_address)
          /\ UNCHANGED <<calls, threads, callbacks>>
    \/ \E sid \in KnownSids, c \in ClientContexts :
          /\ ValidateSession(sid, c.device_fingerprint, c.ip_address)
          /\ UNCHANGED <<calls, threads, callbacks>>
    \/ \E sid \in KnownSids : InvalidateSession(sid) /\ UNCHANGED <<calls, threads, callbacks>>
    \/ CleanupExpired /\ UNCHANGED <<calls, threads, callbacks>>
    \/ \E sid \in KnownSids, c \in ClientContexts :
          /\ Authenticate(sid, c.device_fingerprint, c.ip_address, "default",
                          UntrainedScore[1], UntrainedScore[2])
          /\ UNCHANGED <<calls, threads, callbacks>>
    \/ \E sid \in KnownSids : EndSession(sid) /\ UNCHANGED <<calls, threads, callbacks>>

SpecRegistry == Init /\ [][NextRegistry]_vars

\* The session registry shared by two users, without fingerprints.
NextEviction ==
    \/ Tick /\ UNCHANGED <<calls, threads, callbacks>>
    \/ \E u \in EvictionUsers :
          /\ nextSid <= MaxEvictionSessions
          /\ CreateSession(u, NoValue, NoValue)
          /\ UNCHANGED <<calls, threads, callbacks>>
    \/ \E sid \in KnownSids :
          ValidateSession(sid, NoValue, NoValue) /\ UNCHANGED <<calls, threads, callbacks>>
    \/ \E sid \in KnownSids : InvalidateSession(sid) /\ UNCHANGED <<calls, threads, callbacks>>
    \/ CleanupExpired /\ UNCHANGED <<calls, threads, callbacks>>

SpecEviction == Init /\ [][NextEviction]_vars

\* The challenge registry on its own.
NextChallenge ==
    \/ Tick /\ UNCHANGED <<calls, threads, callbacks>>
    \/ \E ty \in ChallengeTypes, u \in Users, sid \in {1} :
          CreateChallenge(ty, u, sid) /\ UNCHANGED <<calls, threads, callbacks>>
    \/ \E cid \in KnownCids, response \in Responses :
          ProcessChallengeResponse(cid, response) /\ UNCHANGED <<calls, threads, callbacks>>
    \/ CleanupExpiredChallenges /\ UNCHANGED <<calls, threads, callbacks>>

SpecChallenge == Init /\ [][NextChallenge]_vars

\* ------------------------------------------------------ concurrent workers
\* process_challenge_response run by several workers at once.  The manager
\* holds no lock, so a worker can be suspended between any two statements;
\* the steps below are the stretches between the accesses to the shared
\* challenge that matter: the three tests and the validation, the two
\* assignments of the success branch, and the read and the write of
\* `challenge.attempts_remaining -= 1` with the test that follows it.
Enter(t, cid, success, message, confidence) ==
    [threads EXCEPT ![t] = [@ EXCEPT !.pc = "validated", !.id = cid,
                                     !.success = success, !.message = message,
                                     !.confidence = confidence]]

Leave(t, finished) ==
    [threads EXCEPT ![t] = [IdleThread EXCEPT !.done = threads[t].done + finished]]

ResponseEnter(t, cid, response) ==
    LET early == \/ cid \notin DOMAIN active_challenges
                 \/ now > active_challenges[cid].expires_at
                 \/ active_challenges[cid].is_completed
        r == process_challenge_response(active_challenges, cid, response, now)
        v == validate_challenge_response(active_challenges[cid], response)
    IN  /\ threads[t].pc = "idle"
        /\ IF early
             THEN /\ active_challenges' = r.challenges
                  /\ ret' = Result("ProcessChallengeResponse", cid, NoValue,
                                   r.success, "", r.message)
                  /\ UNCHANGED <<threads, callbacks>>
             ELSE /\ threads' = Enter(t, cid, v.success, v.message, 0)
                  /\ UNCHANGED <<active_challenges, ret>>
        /\ UNCHANGED <<now, active_sessions, nextSid, auth_sessions,
                       current_session, nextCid, auth_stats, thresholds,
                       context_adjustments,
                       alert_history>>

\* The worker holds the challenge object: its writes reach the registry as
\* long as the object is still registered.
ResponseSucceed(t) ==
    LET cid == threads[t].id
    IN  /\ threads[t].pc = "validated"
        /\ threads[t].success
        /\ active_challenges' =
               IF cid \in DOMAIN active_challenges
                 THEN [active_challenges EXCEPT ![cid].is_completed = TRUE,
                                                ![cid].is_successful = TRUE]
                 ELSE active_challenges
        /\ ret' = Result("ProcessChallengeResponse", cid, NoValue, TRUE, "",
                         threads[t].message)
        /\ threads' = Leave(t, 0)
        /\ UNCHANGED <<now, active_sessions, nextSid, auth_sessions,
                       current_session, nextCid, auth_stats, thresholds,
                       context_adjustments,
                       alert_history>>

ResponseLoadAttempts(t) ==
    LET cid == threads[t].id
    IN  /\ threads[t].pc = "validated"
        /\ ~threads[t].success
        /\ cid \in DOMAIN active_challenges
        /\ threads' = [threads EXCEPT ![t] =
               [@ EXCEPT !.pc = "loaded",
                         !.loaded = active_challenges[cid].attempts_remaining]]
        /\ UNCHANGED <<now, active_sessions, nextSid, auth_sessions,
                       current_session, active_challenges, nextCid, auth_stats,
                       thresholds, context_adjustments, ret,
                       alert_history>>

ResponseStoreAttempts(t) ==
    LET cid == threads[t].id
        f == FailedAttempt([active_challenges[cid] EXCEPT
                               !.attempts_remaining = threads[t].loaded],
                           threads[t].message)
    IN  /\ threads[t].pc = "loaded"
        /\ cid \in DOMAIN active_challenges
        /\ active_challenges' = [active_challenges EXCEPT ![cid] = f.challenge]
        /\ ret' = Result("ProcessChallengeResponse", cid, NoValue, FALSE, "",
                         f.message)
        /\ threads' = Leave(t, 0)
        /\ UNCHANGED <<now, active_sessions, nextSid, auth_sessions,
                       current_session, nextCid, auth_stats, thresholds,
                       context_adjustments,
                       alert_history>>

\* Workers answering PIN challenges while time stands still: nothing expires
\* and nothing is swept, so a registered challenge stays registered.
NextConcurrentResponse ==
    \/ \E u \in Users, sid \in {1} :
          CreateChallenge("pin", u, sid) /\ UNCHANGED <<calls, threads, callbacks>>
    \/ \E t \in Threads, cid \in KnownCids, response \in PinResponses :
          ResponseEnter(t, cid, response) /\ UNCHANGED <<calls, callbacks>>
    \/ \E t \in Threads : ResponseSucceed(t) /\ UNCHANGED <<calls, callbacks>>
    \/ \E t \in Threads : ResponseLoadAttempts(t) /\ UNCHANGED <<calls, callbacks>>
    \/ \E t \in Threads : ResponseStoreAttempts(t) /\ UNCHANGED <<calls, callbacks>>

SpecConcurrentResponse == Init /\ [][NextConcurrentResponse]_vars

\* authenticate_continuously run by several workers at once: everything up
\* to the response processing, then the read and the write of
\* `session['authentication_count'] += 1` in _update_session_state, which
\* no lock protects, then the statistics and the result.  No callback is
\* registered in these runs, so the notification loops have nothing to call.
AuthEnter(t, sid, fp, ip, context, auth_confidence, anomaly_score) ==
    LET v == validate_session(active_sessions, sid, fp, ip, now)
        ml == analyze_behavior(thresholds, context_adjustments,
                               auth_confidence, anomaly_score, context)
        alert == analyze_risk(ml, FALSE, FALSE, FALSE)
        user_id == IF v.ok THEN active_sessions[sid].user_id ELSE "unknown"
        done == execute_response_actions(alert.recommended_actions,
                    active_challenges, nextCid, user_id, sid, now)
    IN  /\ threads[t].pc = "idle"
        /\ active_sessions' = v.sessions
        /\ IF ~v.ok
             THEN /\ ret' = Result("Authenticate", sid, fp, FALSE, "logout",
                                   "Session validation failed")
                  /\ UNCHANGED <<active_challenges, nextCid, threads,
                                 alert_history>>
           ELSE IF ~HasFeatures
             THEN /\ ret' = [Result("Authenticate", sid, fp, TRUE, "monitor",
                                    "Insufficient behavioral data")
                                EXCEPT !.confidence = 500]
                  /\ UNCHANGED <<active_challenges, nextCid, threads,
                                 alert_history>>
           ELSE IF sid \notin DOMAIN auth_sessions
             THEN /\ ret' = Result("Authenticate", sid, fp, FALSE, "logout",
                                   "Authentication system error")
                  /\ UNCHANGED <<active_challenges, nextCid, threads,
                                 alert_history>>
           ELSE /\ alert_history' = append_alert(alert_history, sid)
                /\ active_challenges' = done.challenges
                /\ nextCid' = done.nextCid
                /\ threads' = Enter(t, sid, ml.decision \in {"continue", "monitor"},
                                    ml.decision, ml.combined_confidence)
                /\ UNCHANGED ret
        /\ UNCHANGED <<now, nextSid, auth_sessions, current_session,
                       auth_stats, thresholds, context_adjustments>>

AuthLoadCount(t) ==
    LET sid == threads[t].id
    IN  /\ threads[t].pc = "validated"
        /\ threads' = [threads EXCEPT ![t] =
               IF sid \in DOMAIN auth_sessions
                 THEN [@ EXCEPT !.pc = "loaded",
                                !.loaded = auth_sessions[sid].authentication_count]
                 ELSE [@ EXCEPT !.pc = "skipped"]]
        /\ UNCHANGED <<now, active_sessions, nextSid, auth_sessions,
                       current_session, active_challenges, nextCid, auth_stats,
                       thresholds, context_adjustments, ret,
                       alert_history>>

AuthStoreCount(t) ==
    LET sid == threads[t].id
    IN  /\ threads[t].pc \in {"loaded", "skipped"}
        /\ auth_sessions' =
               IF threads[t].pc = "loaded" /\ sid \in DOMAIN auth_sessions
                 THEN [auth_sessions EXCEPT
                          ![sid].authentication_count = threads[t].loaded + 1]
                 ELSE auth_sessions
        /\ auth_stats' = update_auth_stats(auth_stats, threads[t].message)
        /\ ret' = [Result("Authenticate", sid, NoValue, threads[t].success,
                          threads[t].message, "decision")
                     EXCEPT !.confidence = threads[t].confidence]
        /\ threads' = Leave(t, 1)
        /\ UNCHANGED <<now, active_sessions, nextSid, current_session,
                       active_challenges, nextCid, thresholds,
                       context_adjustments,
                       alert_history>>

\* Workers authenticating sessions created without a fingerprint.
NextConcurrentAuth ==
    \/ \E u \in Users :
          /\ Called(MaxCalls) /\ UNCHANGED <<threads, callbacks>>
          /\ StartAuthenticationSession(u, NoValue, NoValue)
    \/ \E t \in Threads, sid \in KnownSids, score \in ScorePairs :
          /\ Called(MaxCalls) /\ UNCHANGED callbacks
          /\ AuthEnter(t, sid, NoValue, NoValue, "default", score[1], score[2])
    \/ \E t \in Threads : AuthLoadCount(t) /\ UNCHANGED <<calls, callbacks>>
    \/ \E t \in Threads : AuthStoreCount(t) /\ UNCHANGED <<calls, callbacks>>

SpecConcurrentAuth == Init /\ [][NextConcurrentAuth]_vars

\* The challenge registry with the background sweep of the SecurityManager
\* and no other caller of a cleanup: _cleanup_loop runs every 300 seconds
\* for as long as the service runs, and time passes.
TickStep == Tick /\ UNCHANGED <<calls, threads, callbacks>>

SweepStep == CleanupExpired /\ UNCHANGED <<calls, threads, callbacks>>

NextSweep ==
    \/ TickStep
    \/ \E ty \in ChallengeTypes, u \in Users, sid \in {1} :
          CreateChallenge(ty, u, sid) /\ UNCHANGED <<calls, threads, callbacks>>
    \/ \E cid \in KnownCids, response \in Responses :
          ProcessChallengeResponse(cid, response) /\ UNCHANGED <<calls, threads, callbacks>>
    \/ SweepStep

SpecSweep ==
    Init /\ [][NextSweep]_vars /\ WF_vars(TickStep) /\ WF_vars(SweepStep)

\* The risk assessment on its own, under the default thresholds.
NextRisk ==
    \E score \in RiskPairs, dm \in BOOLEAN, lc \in BOOLEAN, ta \in BOOLEAN :
        AnalyzeRisk(score[1], score[2], dm, lc, ta) /\ UNCHANGED <<calls, threads, callbacks>>

SpecRisk == Init /\ [][NextRisk]_vars

\* Sessions started, queried and ended through the orchestrator as time
\* passes.
NextLifecycle ==
    \/ Tick /\ UNCHANGED <<calls, threads, callbacks>>
    \/ \E u \in Users, c \in StoredContexts :
          /\ Called(MaxLifecycleCalls) /\ UNCHANGED <<threads, callbacks>>
          /\ StartAuthenticationSession(u, c.device_fingerprint, c.ip_address)
    \/ \E sid \in KnownSids :
          /\ Called(MaxLifecycleCalls) /\ UNCHANGED <<threads, callbacks>>
          /\ GetSessionStatus(sid)
    \/ \E sid \in KnownSids :
          /\ Called(MaxLifecycleCalls) /\ UNCHANGED <<threads, callbacks>>
          /\ EndSession(sid)

SpecLifecycle == Init /\ [][NextLifecycle]_vars

\* Calls made while security-event and authentication callbacks are
\* registered; each call of a callback may raise.
NextCallbacks ==
    \/ \E cb \in CallbackIds :
          AddSecurityCallback(cb) /\ UNCHANGED <<calls, threads>>
    \/ \E cb \in CallbackIds :
          AddAuthenticationCallback(cb) /\ UNCHANGED <<calls, threads>>
    \/ \E u \in Users :
          /\ Called(MaxCalls) /\ UNCHANGED <<threads, callbacks>>
          /\ StartAuthenticationSession(u, NoValue, NoValue)
    \/ \E u \in Users :
          /\ Called(MaxCalls) /\ UNCHANGED <<threads, callbacks>>
          /\ CreateSession(u, NoValue, NoValue)
    \/ \E sid \in KnownSids :
          /\ Called(MaxCalls) /\ UNCHANGED <<threads, callbacks>>
          /\ ValidateSession(sid, NoValue, NoValue)
    \/ \E sid \in KnownSids, score \in {UntrainedScore, <<1000, 0>>} :
          /\ Called(MaxCalls) /\ UNCHANGED <<threads, callbacks>>
          /\ Authenticate(sid, NoValue, NoValue, "default", score[1], score[2])

SpecCallbacks == Init /\ [][NextCallbacks]_vars

\* The threshold store and the decision, for every configuration drawn.
InitThresholds == InitCommon /\ thresholds \in ThresholdConfigs

NextThresholds ==
    \/ \E c \in Contexts, f \in Feedbacks, x \in AdjustScores :
          AdjustThreshold(c, f, x) /\ UNCHANGED <<calls, threads, callbacks>>
    \/ \E score \in FusePairs, c \in Contexts :
          AnalyzeBehavior(score[1], score[2], c) /\ UNCHANGED <<calls, threads, callbacks>>

SpecThresholds == InitThresholds /\ [][NextThresholds]_vars

\* ------------------------------------------------------------------ claims
\* The validity of a session as the specification states it: registered,
\* now < expiresAt and now - lastActivity < idleTimeout.
SessionValidAt(S, t, sid) ==
    /\ sid \in DOMAIN S
    /\ t < S[sid].expires_at
    /\ t - S[sid].last_activity < idle_timeout

FingerprintMismatch(S, sid, fp) ==
    /\ sid \in DOMAIN S
    /\ fp # NoValue
    /\ S[sid].device_fingerprint # NoValue
    /\ fp # S[sid].device_fingerprint

\* C1: Authenticate on a session id that is unknown, expired (absolute or
\* idle) or fingerprint-mismatched returns success = false and
\* decision = logout.
C1_InvalidSessionIsLogout ==
    [][(/\ ret'.op = "Authenticate"
        /\ \/ ~SessionValidAt(active_sessions, now, ret'.id)
           \/ FingerprintMismatch(active_sessions, ret'.id, ret'.fp))
       => (~ret'.ok /\ ret'.decision = "logout")]_vars

\* C2: when Authenticate returns logout the session is removed from the
\* registry at once, a removed session stays removed, and Authenticate on a
\* removed session returns logout.
C2_LogoutInvalidates ==
    [][/\ (ret'.op = "Authenticate" /\ ret'.decision = "logout")
            => ret'.id \notin DOMAIN active_sessions'
       /\ \A sid \in KnownSids : sid \notin DOMAIN active_sessions =>
            /\ sid \notin DOMAIN active_sessions'
            /\ (ret'.op = "Authenticate" /\ ret'.id = sid)
                 => ret'.decision = "logout"]_vars

\* C3: ValidateSession without a fingerprint mismatch succeeds exactly when
\* now < expiresAt and now - lastActivity < idleTimeout.
C3_ValidIffBothStrict ==
    [][(/\ ret'.op = "ValidateSession"
        /\ ret'.id \in DOMAIN active_sessions
        /\ ~FingerprintMismatch(active_sessions, ret'.id, ret'.fp))
       => (ret'.ok <=> SessionValidAt(active_sessions, now, ret'.id))]_vars

\* C4: a session id that is invalid (unregistered because ended, evicted or
\* fingerprint-mismatched, or expired) stays invalid, ValidateSession on it
\* fails and Authenticate on it returns logout; a failed validation leaves
\* the session invalid.
C4_InvalidIsTerminal ==
    [][/\ \A sid \in KnownSids : ~SessionValidAt(active_sessions, now, sid) =>
            /\ ~SessionValidAt(active_sessions', now', sid)
            /\ (ret'.op = "ValidateSession" /\ ret'.id = sid) => ~ret'.ok
            /\ (ret'.op = "Authenticate" /\ ret'.id = sid)
                 => ret'.decision = "logout"
       /\ (ret'.op = "ValidateSession" /\ ~ret'.ok)
            => ~SessionValidAt(active_sessions', now', ret'.id)]_vars

\* A response to a registered challenge that has not timed out: a new
\* challenge has max_attempts attempts; a failing response to a pending
\* challenge takes one attempt, completes the challenge as failed exactly
\* when none is left, and the completing call carries the message "Maximum
\* attempts exceeded"; a call on a challenge completed as failed returns
\* failure with replay_message and takes no attempt.
AttemptsStep(replay_message) ==
    /\ ret'.op = "CreateChallenge" =>
         /\ active_challenges'[ret'.id].attempts_remaining = max_attempts
         /\ ~active_challenges'[ret'.id].is_completed
    /\ (/\ ret'.op = "ProcessChallengeResponse"
        /\ ret'.id \in DOMAIN active_challenges
        /\ ~(now > active_challenges[ret'.id].expires_at)) =>
         LET before == active_challenges[ret'.id]
             after == active_challenges'[ret'.id]
         IN  IF before.is_completed
               THEN /\ after = before
                    /\ ret'.ok = before.is_successful
                    /\ ~before.is_successful => ret'.message = replay_message
               ELSE ~ret'.ok =>
                    /\ after.attempts_remaining = before.attempts_remaining - 1
                    /\ after.is_completed <=> (after.attempts_remaining = 0)
                    /\ after.is_completed =>
                         /\ ~after.is_successful
                         /\ ret'.message = "Maximum attempts exceeded"

\* C5 as stated: max_attempts consecutive failing responses exhaust a
\* challenge, and the call after them returns "maximum attempts exceeded"
\* without taking an attempt.
C5_ExhaustionAsStated == [][AttemptsStep("Maximum attempts exceeded")]_vars

\* C5 as amended: max_attempts consecutive failing responses exhaust a
\* challenge, the last of them returns "Maximum attempts exceeded", and the
\* call after them returns failure with "Challenge already completed"
\* without taking an attempt.
C5_Exhaustion == [][AttemptsStep("Challenge already completed")]_vars

C5_Witness ==
    /\ ret.op = "ProcessChallengeResponse"
    /\ ret.id \in DOMAIN active_challenges
    /\ active_challenges[ret.id].is_completed
    /\ active_challenges[ret.id].attempts_remaining = 0
    /\ ~ret.ok
    /\ ret.message = "Challenge already completed"

\* C6: HandleChallengeResponse on a completed challenge returns the stored
\* outcome and changes neither the challenge nor the statistics counters.
C6_ReplayChangesNothing ==
    [][(/\ ret'.op = "HandleChallengeResponse"
        /\ ret'.id \in DOMAIN active_challenges
        /\ active_challenges[ret'.id].is_completed
        /\ ~(now > active_challenges[ret'.id].expires_at))
       => /\ ret'.ok = active_challenges[ret'.id].is_successful
          /\ active_challenges' = active_challenges
          /\ auth_stats' = auth_stats]_vars

\* The challenge raised by decision = challenge (the PIN challenge of the
\* low confidence level) is registered for the session, not completed and
\* not timed out.
OutstandingChallenge(sid) ==
    \E c \in DOMAIN active_challenges :
        /\ active_challenges[c].session_id = sid
        /\ active_challenges[c].challenge_type = "pin"
        /\ ~active_challenges[c].is_completed
        /\ ~(now > active_challenges[c].expires_at)

\* C7: while a session has an outstanding challenge, Authenticate on it
\* returns neither continue nor monitor.
C7_ChallengeBlocks ==
    [][(ret'.op = "Authenticate" /\ OutstandingChallenge(ret'.id))
       => ret'.decision \notin {"continue", "monitor"}]_vars

\* C8: the response that completes a challenge decides the session: on
\* success a registered session stays registered, on exhausted attempts the
\* session is removed from the registry.
C8_ResolutionDecidesSession ==
    [][(/\ ret'.op = "HandleChallengeResponse"
        /\ ret'.id \in DOMAIN active_challenges
        /\ ~active_challenges[ret'.id].is_completed
        /\ ret'.id \in DOMAIN active_challenges'
        /\ active_challenges'[ret'.id].is_completed)
       => LET sid == active_challenges[ret'.id].session_id
          IN  IF active_challenges'[ret'.id].is_successful
                THEN sid \in DOMAIN active_sessions
                       => sid \in DOMAIN active_sessions'
                ELSE sid \notin DOMAIN active_sessions']_vars

\* Trust order of the decisions: logout < challenge < monitor < continue.
Rank(decision) ==
    CASE decision = "logout" -> 0
      [] decision = "challenge" -> 1
      [] decision = "monitor" -> 2
      [] decision = "continue" -> 3

\* The decision of analyze_behavior at combined confidence c under the
\* effective thresholds of a context in the current state.
DecisionAt(c, context) ==
    Decide(c, get_threshold(thresholds, context_adjustments, "high_confidence", context),
              get_threshold(thresholds, context_adjustments, "medium_confidence", context),
              get_threshold(thresholds, context_adjustments, "low_confidence", context)).decision

\* C9: for fixed effective thresholds, whatever their order, the decision
\* does not lose trust (logout < challenge < monitor < continue) as the
\* combined confidence grows.
C9_Monotone ==
    \A context \in Contexts : \A c1 \in Confidences, c2 \in Confidences :
        c1 <= c2 => Rank(DecisionAt(c1, context)) <= Rank(DecisionAt(c2, context))

C9_Witness ==
    /\ ret.op = "AnalyzeBehavior"
    /\ thresholds.high_confidence < thresholds.low_confidence
    /\ ret.message \in DOMAIN context_adjustments
    /\ context_adjustments[ret.message] # 0
    /\ ret.decision = "logout"
    /\ \E c \in Confidences : c > ret.id /\ DecisionAt(c, ret.message) = "continue"

\* C10: every stored adjustment lies in [-0.3, 0.3] and every effective
\* threshold in [0.1, 0.95].
C10_Bounded ==
    /\ \A context \in DOMAIN context_adjustments :
         /\ AdjMin <= context_adjustments[context]
         /\ context_adjustments[context] <= AdjMax
    /\ \A level \in Levels, context \in Contexts :
         LET threshold == get_threshold(thresholds, context_adjustments, level, context)
         IN  ThrMin <= threshold /\ threshold <= ThrMax

C10_Witness ==
    /\ ret.op = "AdjustThreshold"
    /\ ret.message \in DOMAIN context_adjustments
    /\ context_adjustments[ret.message] = AdjMax
    /\ thresholds.high_confidence + AdjMax > ThrMax
    /\ get_threshold(thresholds, context_adjustments, "high_confidence", ret.message) = ThrMax

\* C11: AdjustThreshold for a context leaves the base thresholds, every
\* other context's adjustment and every other context's effective
\* thresholds as they were.
C11_ContextIsolation ==
    [][ret'.op = "AdjustThreshold" =>
         /\ thresholds' = thresholds
         /\ \A c \in Contexts \ {ret'.message} :
              /\ (c \in DOMAIN context_adjustments') <=> (c \in DOMAIN context_adjustments)
              /\ c \in DOMAIN context_adjustments
                   => context_adjustments'[c] = context_adjustments[c]
              /\ \A level \in Levels :
                   get_threshold(thresholds', context_adjustments', level, c)
                     = get_threshold(thresholds, context_adjustments, level, c)]_vars

C11_Witness ==
    /\ ret.op = "AdjustThreshold"
    /\ DOMAIN context_adjustments = Contexts
    /\ \A c \in Contexts \ {ret.message} :
         /\ context_adjustments[c] # 0
         /\ context_adjustments[c] # context_adjustments[ret.message]

\* C12: an engine is never constructed on base thresholds that violate
\* low <= medium <= high.
C12_UnorderedRejected == confidence_levels_valid(thresholds)

SessionsOf(S, user_id) == {s \in DOMAIN S : S[s].user_id = user_id}

\* C13: no user ever has more than max_concurrent registered sessions; a
\* CreateSession for a user at the limit removes exactly one session, one
\* of that user's with the smallest created_at, and registers the new one;
\* below the limit it only registers the new one; the sessions that stay
\* are unchanged.
C13_ConcurrentLimit ==
    [][/\ \A u \in EvictionUsers :
            Cardinality(SessionsOf(active_sessions', u)) <= max_concurrent
       /\ ret'.op = "CreateSession" =>
            /\ ret'.id \notin DOMAIN active_sessions
            /\ ret'.id \in DOMAIN active_sessions'
            /\ LET mine == SessionsOf(active_sessions, active_sessions'[ret'.id].user_id)
               IN  IF Cardinality(mine) >= max_concurrent
                     THEN \E old \in mine :
                            /\ \A o \in mine : active_sessions[old].created_at
                                                 <= active_sessions[o].created_at
                            /\ DOMAIN active_sessions'
                                 = (DOMAIN active_sessions \ {old}) \cup {ret'.id}
                     ELSE DOMAIN active_sessions'
                            = DOMAIN active_sessions \cup {ret'.id}
            /\ \A s \in DOMAIN active_sessions \cap DOMAIN active_sessions' :
                 active_sessions'[s] = active_sessions[s]]_vars

C13_Witness ==
    /\ ret.op = "CreateSession"
    /\ now = 0
    /\ \E u \in EvictionUsers, o \in EvictionUsers :
         /\ u # o
         /\ active_sessions[ret.id].user_id = u
         /\ Cardinality(SessionsOf(active_sessions, u)) = max_concurrent
         /\ SessionsOf(active_sessions, o) # {}
    /\ Cardinality(DOMAIN active_sessions) < nextSid - 1

\* C14: StartAuthenticationSession returns the id of a new registered
\* session in every state.
C14_CreateAlwaysSucceeds ==
    ret.op = "StartAuthenticationSession"
        => ret.ok /\ ret.id \in DOMAIN active_sessions

\* C15: a removed session id stays removed; ValidateSession with a
\* mismatching fingerprint (both supplied) fails and removes the session, on
\* a removed session it fails, and on a valid session without a mismatch
\* (either fingerprint missing, or equal) it succeeds and sets
\* last_activity to now.
C15_FingerprintGate ==
    [][/\ \A sid \in KnownSids : sid \notin DOMAIN active_sessions
            => sid \notin DOMAIN active_sessions'
       /\ ret'.op = "ValidateSession" =>
            /\ FingerprintMismatch(active_sessions, ret'.id, ret'.fp)
                 => ~ret'.ok /\ ret'.id \notin DOMAIN active_sessions'
            /\ ret'.id \notin DOMAIN active_sessions => ~ret'.ok
            /\ (/\ SessionValidAt(active_sessions, now, ret'.id)
                /\ ~FingerprintMismatch(active_sessions, ret'.id, ret'.fp))
                 => /\ ret'.ok
                    /\ active_sessions'[ret'.id].last_activity = now]_vars

C15_Witness ==
    /\ ret.op = "ValidateSession"
    /\ ret.fp = "fpB"
    /\ ~ret.ok
    /\ now = 0
    /\ ret.id \in 1..(nextSid - 1)
    /\ ret.id \notin DOMAIN active_sessions
    /\ DOMAIN active_sessions # {}

IpMismatch(S, sid, ip) ==
    /\ sid \in DOMAIN S
    /\ ip # NoValue
    /\ S[sid].ip_address # NoValue
    /\ ip # S[sid].ip_address

C17_UntrainedIsMonitor ==
    [][\A sid \in KnownSids, c \in ClientContexts :
         (/\ SessionValidAt(active_sessions, now, sid)
          /\ ~FingerprintMismatch(active_sessions, sid, c.device_fingerprint)
          /\ current_session.exists
          /\ current_session.is_active
          /\ Authenticate(sid, c.device_fingerprint, c.ip_address, "default",
                          UntrainedScore[1], UntrainedScore[2]))
         => ret'.decision = "monitor"]_vars

\* C18: Authenticate on a valid session while no behavioral session is
\* active returns success, decision = monitor and confidence 0.5, creates
\* no challenge and leaves the session valid.
C18_NoFeaturesIsMonitor ==
    [][(/\ ret'.op = "Authenticate"
        /\ SessionValidAt(active_sessions, now, ret'.id)
        /\ ~FingerprintMismatch(active_sessions, ret'.id, ret'.fp)
        /\ ~(current_session.exists /\ current_session.is_active))
       => /\ ret'.ok
          /\ ret'.decision = "monitor"
          /\ ret'.confidence = 500
          /\ active_challenges' = active_challenges
          /\ nextCid' = nextCid
          /\ SessionValidAt(active_sessions', now', ret'.id)]_vars

C18_Witness ==
    /\ ret.op = "Authenticate"
    /\ ret.message = "Insufficient behavioral data"
    /\ ret.confidence = 500
    /\ ret.id \in DOMAIN active_sessions
    /\ ret.id \in DOMAIN auth_sessions
    /\ ~current_session.is_active

\* C19: before its absolute expiry and without a fingerprint mismatch, a
\* session validates (and last_activity becomes now) whenever
\* now - last_activity < idle_timeout and fails to validate whenever
\* now - last_activity > idle_timeout.
C19_IdleExpiry ==
    [][(/\ ret'.op = "ValidateSession"
        /\ ret'.id \in DOMAIN active_sessions
        /\ ~FingerprintMismatch(active_sessions, ret'.id, ret'.fp)
        /\ now < active_sessions[ret'.id].expires_at)
       => LET idle == now - active_sessions[ret'.id].last_activity
          IN  /\ idle < idle_timeout
                   => /\ ret'.ok
                      /\ active_sessions'[ret'.id].last_activity = now
              /\ idle > idle_timeout => ~ret'.ok]_vars

C19_Witness ==
    /\ ret.op = "ValidateSession"
    /\ ~ret.ok
    /\ ret.fp = NoValue
    /\ now = idle_timeout + 1
    /\ now < session_timeout
    /\ ret.id \in 1..(nextSid - 1)

FuseScores == {0, 50, 250, 500, 750, 950, 1000}

\* C20: the combined confidence is (auth + (1 - anomaly)) / 2, lies in
\* [0, 1], does not fall as auth_confidence grows and does not rise as
\* anomaly_score grows; under the default thresholds with no adjustment
\* the pair (0.95, 0.05) gives 0.95 and decision continue.
C20_Fuse ==
    /\ \A a \in FuseScores, b \in FuseScores :
         /\ 2 * combined_confidence(a, b) = a + (1000 - b)
         /\ combined_confidence(a, b) >= 0
         /\ combined_confidence(a, b) <= 1000
         /\ \A x \in FuseScores :
              /\ a <= x => combined_confidence(a, b) <= combined_confidence(x, b)
              /\ b <= x => combined_confidence(a, b) >= combined_confidence(a, x)
    /\ (thresholds = DefaultThresholds /\ context_adjustments = <<>>) =>
         LET r == analyze_behavior(thresholds, context_adjustments, 950, 50, "default")
         IN  r.combined_confidence = 950 /\ r.decision = "continue"
    /\ ret.op = "AnalyzeBehavior" => (ret.id >= 0 /\ ret.id <= 1000)

C20_Witness ==
    /\ ret.op = "AnalyzeBehavior"
    /\ thresholds = DefaultThresholds
    /\ context_adjustments = <<>>
    /\ ret.id = 950
    /\ ret.decision = "continue"

\* ------------------------------------------------------------------ C21
\* C21: concurrent responses to one challenge behave as if serialized: every
\* failing response that is counted lowers attemptsRemaining by exactly one
\* from its current value, attemptsRemaining never goes below 0, and a
\* challenge that is completed and failed is never turned into a success.
C21_Serialized ==
    [][\A cid \in DOMAIN active_challenges \cap DOMAIN active_challenges' :
          LET before == active_challenges[cid]
              after == active_challenges'[cid]
          IN  /\ after.attempts_remaining >= 0
              /\ (before.is_completed /\ ~before.is_successful)
                    => ~after.is_successful
              /\ \A t \in Threads :
                    (threads[t].pc = "loaded" /\ threads[t].id = cid
                     /\ threads'[t].pc = "idle")
                    => after.attempts_remaining = before.attempts_remaining - 1]_vars

Position(x, s) == CHOOSE i \in 1..Len(s) : s[i] = x /\ \A j \in 1..(i - 1) : s[j] # x

\* The actions of the confidence tier, of the severity and of the risk
\* factors, one list after the other, for the assessment just returned.
ActionsAsBuilt(r) ==
    (IF r.confidence >= thresholds.high_confidence THEN <<"continue">>
     ELSE IF r.confidence >= thresholds.medium_confidence
       THEN <<"monitor", "continue">>
     ELSE IF r.confidence >= thresholds.low_confidence
       THEN <<"challenge_pin", "monitor">>
     ELSE <<"logout", "alert_admin">>)
    \o (IF r.severity = "critical" THEN <<"logout", "alert_admin", "lock_session">>
        ELSE IF r.severity = "high" THEN <<"challenge_biometric", "restrict_functions">>
        ELSE <<>>)
    \o (IF r.input[3] THEN <<"challenge_sms">> ELSE <<>>)
    \o (IF r.input[4] THEN <<"challenge_biometric">> ELSE <<>>)

\* C24: recommendedActions holds exactly the actions of the confidence
\* tier, the severity and the risk factors, each once, in the order of their
\* first occurrence in that concatenation.
C24_OrderedUnique ==
    [][ret'.op = "AnalyzeRisk" =>
          LET built == ActionsAsBuilt(ret')
              got == ret'.actions
          IN  /\ {got[i] : i \in 1..Len(got)} = {built[i] : i \in 1..Len(built)}
              /\ \A i, j \in 1..Len(got) :
                    i < j => /\ got[i] # got[j]
                             /\ Position(got[i], built) < Position(got[j], built)]_vars

\* Combined confidence 0.15 with a device mismatch.
C24_Witness ==
    /\ ret.op = "AnalyzeRisk"
    /\ ret.confidence = 150
    /\ ret.input[3]
    /\ ret.severity = "critical"
    /\ ret.actions = <<"logout", "alert_admin", "lock_session", "challenge_sms">>

\* ------------------------------------------------------------------ C25
SeverityRank(severity) ==
    CASE severity = "info" -> 0
      [] severity = "low" -> 1
      [] severity = "medium" -> 2
      [] severity = "high" -> 3
      [] severity = "critical" -> 4

\* C25: the severity is the base severity of the combined confidence, raised
\* to high by an anomaly score above 0.8 when it was low or medium, raised to
\* at least high by a device mismatch or a combined confidence below 0.3; it
\* is never below the base severity, critical stays critical, and it is
\* never info.
C25_SeverityEscalates ==
    [][ret'.op = "AnalyzeRisk" =>
          LET c == ret'.confidence
              base == IF c < 200 THEN 4 ELSE IF c < 400 THEN 3
                      ELSE IF c < 600 THEN 2 ELSE 1
              second == IF ret'.input[2] > 800 THEN Max(base, 3) ELSE base
              third == IF ret'.input[3] \/ c < 300 THEN Max(second, 3) ELSE second
          IN  /\ ret'.severity \in {"low", "medium", "high", "critical"}
              /\ SeverityRank(ret'.severity) = third
              /\ SeverityRank(ret'.severity) >= base
              /\ base = 4 => ret'.severity = "critical"]_vars

\* A critical base severity met by the third rule, and left critical.
C25_Witness ==
    /\ ret.op = "AnalyzeRisk"
    /\ ret.confidence < 200
    /\ ret.input[3]
    /\ ret.input[2] > 800
    /\ ret.severity = "critical"

\* ------------------------------------------------------------------ C26
StepUpType(action) ==
    CASE action = "challenge_pin" -> "pin"
      [] action = "challenge_biometric" -> "biometric"
      [] action = "challenge_sms" -> "sms"
      [] OTHER -> NoValue

\* C26: every action recommended by an evaluation is executed by a handler
\* (none is reported as unknown), and every step-up action among them
\* registers a new pending challenge of its type for the user and session.
C26_EveryActionHandled ==
    [][(ret'.op = "Authenticate" /\ ret'.message = "decision") =>
          \A i \in 1..Len(ret'.actions) :
              LET a == ret'.actions[i]
              IN  /\ execute_single_action(a).success
                  /\ StepUpType(a) # NoValue =>
                       \E c \in DOMAIN active_challenges' \ DOMAIN active_challenges :
                           /\ active_challenges'[c].challenge_type = StepUpType(a)
                           /\ active_challenges'[c].session_id = ret'.id
                           /\ active_challenges'[c].user_id
                                 = active_sessions[ret'.id].user_id
                           /\ ~active_challenges'[c].is_completed]_vars

\* ------------------------------------------------------------------ C27
\* C27: a response to a registered challenge whose expiresAt has passed
\* returns failure with the message "Challenge expired" and removes the
\* challenge, whatever the response, leaving every other challenge as it
\* was; a response to an unknown id returns failure with the message
\* "Challenge not found or expired" and changes nothing.
C27_LazyExpiry ==
    [][ret'.op = "ProcessChallengeResponse" =>
          IF ret'.id \notin DOMAIN active_challenges
            THEN /\ ~ret'.ok
                 /\ ret'.message = "Challenge not found or expired"
                 /\ active_challenges' = active_challenges
          ELSE now > active_challenges[ret'.id].expires_at =>
                 /\ ~ret'.ok
                 /\ ret'.message = "Challenge expired"
                 /\ DOMAIN active_challenges' = DOMAIN active_challenges \ {ret'.id}
                 /\ \A c \in DOMAIN active_challenges' :
                       active_challenges'[c] = active_challenges[c]]_vars

\* A response that arrived after the deadline of its challenge.
C27_Witness ==
    /\ ret.op = "ProcessChallengeResponse"
    /\ ret.id # 0
    /\ ret.id \notin DOMAIN active_challenges
    /\ ~ret.ok
    /\ ret.message = "Challenge expired"

\* ------------------------------------------------------------------ C28
Stale(cid) ==
    /\ cid \in DOMAIN active_challenges
    /\ \/ now > active_challenges[cid].expires_at
       \/ active_challenges[cid].is_completed

\* C28: while the background sweep runs, every challenge that is expired or
\* completed is eventually removed from the challenge map, also when no
\* caller touches it again.
C28_EventuallySwept ==
    \A cid \in 1..MaxChallenges :
        [](Stale(cid) => <>(cid \notin DOMAIN active_challenges))

\* ------------------------------------------------------------------ C29
ScenarioStep(combined) ==
    (ret'.op = "AnalyzeRisk" /\ ret'.input[1] = 600 /\ ret'.input[2] = 600) =>
        /\ ret'.confidence = combined
        /\ ret'.decision = "challenge"
        /\ Head(ret'.actions) = "challenge_pin"

\* C29 as stated: under the default thresholds, authConfidence 0.6 and
\* anomalyScore 0.6 give combinedConfidence 0.40, the decision challenge and
\* recommendedActions starting with the PIN challenge.
C29_ScenarioAsStated == [][ScenarioStep(400)]_vars

\* C29 as amended: the same scores give combinedConfidence 0.50, the
\* decision challenge and recommendedActions starting with the PIN challenge.
C29_Scenario == [][ScenarioStep(500)]_vars

C29_Witness ==
    /\ ret.op = "AnalyzeRisk"
    /\ ret.input = <<600, 600, FALSE, FALSE, FALSE>>
    /\ thresholds = DefaultThresholds
    /\ ret.confidence = 500
    /\ ret.decision = "challenge"
    /\ ret.actions = <<"challenge_pin", "monitor">>

\* ------------------------------------------------------------------ C30
RECURSIVE Evaluations(_)
Evaluations(T) ==
    IF T = {} THEN 0
    ELSE LET t == CHOOSE x \in T : TRUE
         IN  threads[t].done + Evaluations(T \ {t})

\* C30: authenticationCount of a session never decreases, and once no call
\* is in flight it equals the number of calls that performed an evaluation.
C30_NoLostUpdate ==
    [][\A sid \in DOMAIN auth_sessions \cap DOMAIN auth_sessions' :
          /\ auth_sessions'[sid].authentication_count
                >= auth_sessions[sid].authentication_count
          /\ (\A t \in Threads : threads'[t].pc = "idle")
                => auth_sessions'[sid].authentication_count
                      = Evaluations(Threads)']_vars


\* ------------------------------------------------------------------ C31
\* What the responder provides as the answer, without the expected value.
Provided(r) == <<r.pin, r.biometric_data, r.biometric_confidence, r.sms_code>>

\* C31: the verdict on a response to a pending challenge depends on the
\* challenge and on the answer provided, not on an expected PIN or code
\* carried by the response: any response providing the same answer gets the
\* same verdict.  A challenge of a type without a validator always fails.
C31_EngineHeldSecret ==
    [][\A cid \in KnownCids, r \in Responses :
          (/\ ProcessChallengeResponse(cid, r)
           /\ cid \in DOMAIN active_challenges
           /\ ~active_challenges[cid].is_completed
           /\ ~(now > active_challenges[cid].expires_at))
          => /\ \A other \in Responses :
                   Provided(other) = Provided(r) =>
                      validate_challenge_response(active_challenges[cid],
                                                  other).success = ret'.ok
             /\ active_challenges[cid].challenge_type
                   \notin {"pin", "biometric", "sms"} => ~ret'.ok]_vars

\* ------------------------------------------------------------------ C32
\* C32: every evaluation appends exactly one new alert, the alerts kept stay
\* as they were and in their order, and the history never holds more than
\* max_alert_history alerts because the oldest are dropped.
C32_BoundedHistory ==
    [][LET h == alert_history
           g == alert_history'
       IN  /\ Len(g) <= max_alert_history
           /\ IF ret'.op = "Authenticate" /\ ret'.message = "decision"
                THEN /\ Len(g) >= 1
                     /\ g[Len(g)].alert_id \notin {h[i].alert_id : i \in 1..Len(h)}
                     /\ \E k \in 0..Len(h) :
                           SubSeq(g, 1, Len(g) - 1) = SubSeq(h, k + 1, Len(h))
                ELSE g = h]_vars

\* ------------------------------------------------------------------ C33
\* C33: the session sweep removes exactly the sessions that are not valid
\* (now >= expiresAt or now - lastActivity >= idleTimeout), leaves every
\* other session as it was and returns the number it removed.
C33_SweepExact ==
    [][ret'.op = "CleanupExpired" =>
          LET valid == {sid \in DOMAIN active_sessions :
                          SessionValidAt(active_sessions, now, sid)}
          IN  /\ DOMAIN active_sessions' = valid
              /\ \A sid \in DOMAIN active_sessions' :
                    sid \in DOMAIN active_sessions
                    /\ active_sessions'[sid] = active_sessions[sid]
              /\ ret'.id = Cardinality(DOMAIN active_sessions \ valid)]_vars

\* ------------------------------------------------------------------ C34
\* C34: a callback that raises changes nothing: CreateSession returns the
\* session it registered, a failed ValidateSession and an evaluating
\* Authenticate return their result, and every registered callback has
\* been called, the ones after a raising callback included.
C34_CallbackFailureSwallowed ==
    [][/\ ret'.op = "CreateSession" =>
             /\ ret'.ok
             /\ ret'.id = nextSid
             /\ ret'.id \in DOMAIN active_sessions'
             /\ ret'.notified = callbacks.event_callbacks
       /\ (ret'.op = "ValidateSession" /\ ~ret'.ok) =>
             ret'.notified = callbacks.event_callbacks
       /\ (ret'.op = "Authenticate" /\ auth_stats' # auth_stats) =>
             /\ ret'.message = "decision"
             /\ ret'.notified = callbacks.auth_callbacks]_vars

\* An evaluation whose first authentication callback raised, with the second
\* one called all the same.
C34_Witness ==
    /\ ret.op = "Authenticate"
    /\ ret.message = "decision"
    /\ Len(ret.notified) = 2
    /\ ret.notified[1] \in ret.raised

\* ------------------------------------------------------------------ C35
\* C35: an Authenticate call that returns a decision other than challenge
\* leaves the challenge map unchanged.
C35_ChallengeOnlyOnChallenge ==
    [][(ret'.op = "Authenticate" /\ ret'.decision # "challenge")
       => active_challenges' = active_challenges]_vars

\* ------------------------------------------------------------------ C36
\* C36: EndSession(s) leaves every other session as it was, in the registry
\* and in the orchestrator, and does not stop the feature collection of a
\* session other than s.
C36_EndSessionIsLocal ==
    [][ret'.op = "EndSession" =>
          /\ \A sid \in DOMAIN active_sessions \ {ret'.id} :
                sid \in DOMAIN active_sessions'
                /\ active_sessions'[sid] = active_sessions[sid]
          /\ \A sid \in DOMAIN auth_sessions \ {ret'.id} :
                sid \in DOMAIN auth_sessions'
                /\ auth_sessions'[sid] = auth_sessions[sid]
          /\ (current_session.exists /\ current_session.session_id # ret'.id)
                => current_session' = current_session]_vars

\* ------------------------------------------------------------------ C37
\* C37: a response completes a challenge successfully only while the session
\* the challenge was created for is registered and valid.
C37_SuccessNeedsValidSession ==
    [][(/\ ret'.op = "HandleChallengeResponse"
        /\ ret'.id \in DOMAIN active_challenges
        /\ ret'.id \in DOMAIN active_challenges'
        /\ ~active_challenges[ret'.id].is_completed
        /\ active_challenges'[ret'.id].is_successful)
       => SessionValidAt(active_sessions, now,
                         active_challenges[ret'.id].session_id)]_vars

\* ------------------------------------------------------------------ C38
\* C38: GetSessionStatus returns a status only for a session that is still
\* in the session registry and has not timed out there (taken here with the
\* idle deadline itself still counted as not timed out).
C38_StatusOnlyForRegistered ==
    [][(ret'.op = "GetSessionStatus" /\ ret'.ok) =>
          /\ ret'.id \in DOMAIN active_sessions
          /\ now < active_sessions[ret'.id].expires_at
          /\ now - active_sessions[ret'.id].last_activity <= idle_timeout]_vars

\* ------------------------------------------------------------------ C39
\* C39: a session start that returns no session id leaves the registered
\* sessions as they were.
C39_FailedStartLeavesRegistry ==
    [][(ret'.op = "StartAuthenticationSession" /\ ~ret'.ok)
       => active_sessions' = active_sessions]_vars

\* ------------------------------------------------------------------ C40
\* C40: when the base thresholds are ordered low <= medium <= high, the
\* effective thresholds of every context are ordered the same way after any
\* sequence of adjustments.
C40_OrderPreserved ==
    (/\ thresholds.low_confidence <= thresholds.medium_confidence
     /\ thresholds.medium_confidence <= thresholds.high_confidence)
    => \A c \in Contexts :
          /\ get_threshold(thresholds, context_adjustments, "low_confidence", c)
               <= get_threshold(thresholds, context_adjustments,
                                "medium_confidence", c)
          /\ get_threshold(thresholds, context_adjustments, "medium_confidence", c)
               <= get_threshold(thresholds, context_adjustments,
                                "high_confidence", c)

\* Ordered base thresholds under an adjustment large enough for the clamp
\* to bring two of them together.
C40_Witness ==
    /\ ret.op = "AdjustThreshold"
    /\ thresholds.low_confidence < thresholds.medium_confidence
    /\ thresholds.medium_confidence < thresholds.high_confidence
    /\ \E c \in DOMAIN context_adjustments :
          /\ context_adjustments[c] # 0
          /\ get_threshold(thresholds, context_adjustments, "medium_confidence", c)
               = get_threshold(thresholds, context_adjustments,
                               "high_confidence", c)

====
